---- MODULE Spec2Model ----
(***************************************************************************)
(* A model of the department feedback portal (FS-TeamCollab): the Feedback *)
(* and Profile tables, the role and ownership guards of the views, the     *)
(* two-write submission pipeline (create, then enrich through the Gemini   *)
(* gateway) and the coordinator's summarisation endpoint.                  *)
(*                                                                         *)
(* A Feedback submission is two writes of the same in-memory object with   *)
(* the gateway calls between them, so it is two steps of the model; every  *)
(* other view reads and writes within one step, except revoke_anonymity,   *)
(* whose read and whose save of the object it read are two steps as well.  *)
(* Model.save() writes every field of the in-memory object: an UPDATE by   *)
(* primary key, and an INSERT when the UPDATE finds no row.                *)
(***************************************************************************)
EXTENDS Integers, Sequences, FiniteSets, TLC

VARIABLES
    users,        \* auth User joined with its Profile, by username
    departments,  \* the Department rows that exist
    feedbacks,    \* the Feedback table, by primary key
    nextId,       \* the next primary key the Feedback table hands out
    inflight,     \* requests between their read/first write and their save
    last          \* the response of the request handled last

vars == <<users, departments, feedbacks, nextId, inflight, last>>

-----------------------------------------------------------------------------
(* Bounds of the model *)

MaxFeedbackId == 1
MaxInflight == 2
MaxIds == 2
MaxPipelineId == 1
MaxSummaryId == 2
MaxAnalyticsId == 3

-----------------------------------------------------------------------------
(* Values *)

NULL == "NULL"
NoRating == 0

Students == {"s1", "s2"}
Coordinators == {"c1", "c2"}
Usernames == Students \cup Coordinators
Depts == {"CS", "EE"}

ROLE_CHOICES == {"STUDENT", "COORDINATOR", "ADMIN"}
INPUT_METHOD_CHOICES == {"TEXT", "AUDIO"}
SENTIMENT_CHOICES == {"POSITIVE", "NEGATIVE", "NEUTRAL"}
CATEGORY_CHOICES == {"TEACHING", "INFRASTRUCTURE", "TRANSPORT", "EXTRACURRICULAR",
                     "STAFF_BEHAVIOUR", "CANTEEN", "LIBRARY"}

RATING_DESCRIPTIVE_LABELS ==
    [r \in 1..5 |-> CASE r = 1 -> "Very Poor"
                      [] r = 2 -> "Poor"
                      [] r = 3 -> "Average"
                      [] r = 4 -> "Good"
                      [] r = 5 -> "Excellent"]

HARDCODED_CATEGORY_QUESTIONS ==
    [c \in CATEGORY_CHOICES |->
        CASE c = "TEACHING" ->
                <<"Clarity of explanations?", "Instructor engagement?",
                  "Course content relevance?", "Fairness of grading?",
                  "Overall teaching effectiveness?">>
          [] c = "INFRASTRUCTURE" ->
                <<"Classroom/lab conditions?", "IT resources (Wi-Fi, PCs)?",
                  "Library resources/space?", "Sports facilities?",
                  "Overall campus infrastructure?">>
          [] c = "TRANSPORT" ->
                <<"Transport punctuality?", "Bus comfort & safety?",
                  "Route accessibility?", "Transport staff behavior?",
                  "Overall transport satisfaction?">>
          [] c = "EXTRACURRICULAR" ->
                <<"Variety/quality of activities?", "Support for student clubs?",
                  "Sports/cultural event opportunities?",
                  "Communication about activities?",
                  "Overall extracurricular satisfaction?">>
          [] c = "STAFF_BEHAVIOUR" ->
                <<"Administrative staff professionalism?",
                  "Support staff helpfulness?",
                  "Faculty accessibility (non-academic)?",
                  "Fairness in staff dealings?", "Overall experience with staff?">>
          [] c = "CANTEEN" ->
                <<"Food quality/taste?", "Variety of food options?",
                  "Canteen hygiene?", "Value for money?",
                  "Overall canteen satisfaction?">>
          [] c = "LIBRARY" ->
                <<"Book/journal availability?", "Library staff helpfulness?",
                  "Study environment comfort?", "Digital resource access?",
                  "Overall effectiveness of library services?">>]

\* The first binding of the name in the module, rebound before any view runs.
HARDCODED_CATEGORY_QUESTIONS_first ==
    [HARDCODED_CATEGORY_QUESTIONS EXCEPT
        !["LIBRARY"][5] = "Overall library effectiveness?"]

-----------------------------------------------------------------------------
(* Python's str operations, on TLA+ strings *)

Whitespace == {" ", "\n", "\t"}

RECURSIVE LStrip(_)
LStrip(s) ==
    IF Len(s) = 0 THEN s
    ELSE IF SubSeq(s, 1, 1) \in Whitespace THEN LStrip(SubSeq(s, 2, Len(s)))
    ELSE s

RECURSIVE RStrip(_)
RStrip(s) ==
    IF Len(s) = 0 THEN s
    ELSE IF SubSeq(s, Len(s), Len(s)) \in Whitespace
         THEN RStrip(SubSeq(s, 1, Len(s) - 1))
    ELSE s

\* str.strip()
Strip(s) == RStrip(LStrip(s))

LowerLetters == "abcdefghijklmnopqrstuvwxyz"
UpperLetters == "ABCDEFGHIJKLMNOPQRSTUVWXYZ"

UpperChar(c) ==
    IF \E i \in 1..26 : SubSeq(LowerLetters, i, i) = c
    THEN LET i == CHOOSE j \in 1..26 : SubSeq(LowerLetters, j, j) = c
         IN SubSeq(UpperLetters, i, i)
    ELSE c

\* str.upper()
RECURSIVE Upper(_)
Upper(s) ==
    IF Len(s) = 0 THEN s
    ELSE UpperChar(SubSeq(s, 1, 1)) \o Upper(SubSeq(s, 2, Len(s)))

LowerChar(c) ==
    IF \E i \in 1..26 : SubSeq(UpperLetters, i, i) = c
    THEN LET i == CHOOSE j \in 1..26 : SubSeq(UpperLetters, j, j) = c
         IN SubSeq(LowerLetters, i, i)
    ELSE c

\* str.lower()
RECURSIVE Lower(_)
Lower(s) ==
    IF Len(s) = 0 THEN s
    ELSE LowerChar(SubSeq(s, 1, 1)) \o Lower(SubSeq(s, 2, Len(s)))

\* str.capitalize()
Capitalize(s) ==
    IF Len(s) = 0 THEN s
    ELSE UpperChar(SubSeq(s, 1, 1)) \o Lower(SubSeq(s, 2, Len(s)))

\* bool(s) of a str
Truthy(s) == Len(s) > 0

\* " ".join(parts)
RECURSIVE Join(_)
Join(parts) ==
    IF Len(parts) = 0 THEN ""
    ELSE IF Len(parts) = 1 THEN parts[1]
    ELSE parts[1] \o " " \o Join(Tail(parts))

\* "".join(parts)
RECURSIVE Concat(_)
Concat(parts) ==
    IF Len(parts) = 0 THEN ""
    ELSE parts[1] \o Concat(Tail(parts))

-----------------------------------------------------------------------------
(* GiveFeedbackForm *)

\* The five rating fields, rating1..rating5, of one form or row.
NoRatings == <<NoRating, NoRating, NoRating, NoRating, NoRating>>

\* forms.CharField.to_python strips the posted text; an empty post is ''.
cleaned_text(form) == Strip(form.text_feedback)

has_text(form) == Truthy(Strip(cleaned_text(form)))
has_audio(form) == form.audio_feedback
has_any_rating(ratings) == \E i \in 1..5 : ratings[i] # NoRating

\* A clean that checks the TEXT mode only.
clean_text_mode_only(form) ==
    IF form.input_method = "TEXT" /\ ~has_text(form) /\ ~has_any_rating(form.ratings)
    THEN {"text_feedback", "__all__"} ELSE {}

\* A clean that has the last check only: something must be present.
clean_any_content(form) ==
    IF ~has_text(form) /\ ~has_audio(form) /\ ~has_any_rating(form.ratings)
    THEN {"__all__"} ELSE {}

\* GiveFeedbackForm.clean: the fields that get an error.
GiveFeedbackForm_clean(form) ==
    (IF form.input_method = "TEXT" /\ ~has_text(form) /\ ~has_any_rating(form.ratings)
     THEN {"text_feedback"} ELSE {})
    \cup
    (IF form.input_method = "AUDIO" /\ ~has_audio(form) /\ ~has_any_rating(form.ratings)
     THEN {"audio_feedback"} ELSE {})
    \cup
    (IF ~has_text(form) /\ ~has_audio(form) /\ ~has_any_rating(form.ratings)
     THEN {"__all__"} ELSE {})

form_is_valid(form) == GiveFeedbackForm_clean(form) = {}

\* form.save(commit=False) with the two fields give_feedback_view sets; the
\* model's defaults for anonymity_revoked and sentiment.
new_feedback(id, student, department, form) ==
    [id |-> id,
     student |-> student,
     category |-> form.category,
     department_at_submission |-> department,
     ratings |-> form.ratings,
     input_method |-> form.input_method,
     text_feedback |-> cleaned_text(form),
     audio_feedback |-> form.audio_feedback,
     is_anonymous |-> form.is_anonymous,
     anonymity_revoked |-> FALSE,
     sentiment |-> NULL]

-----------------------------------------------------------------------------
(* The Gemini gateway.  A reply is [raises, text]: the call raised, or     *)
(* response.text.  key is settings.GOOGLE_API_KEY being set.  A helper's   *)
(* result is [none, text]: Python's None, or a str.                        *)

None == [none |-> TRUE, text |-> ""]
Str(s) == [none |-> FALSE, text |-> s]
IsTruthy(r) == ~r.none /\ Truthy(r.text)

TranscriptionErrorText == "[Audio transcription failed due to an error: gateway error]"
TranscriptionEmptyText == "[Transcription failed or audio was empty]"

transcribe_audio_with_gemini(key, reply) ==
    IF ~key THEN None
    ELSE IF reply.raises THEN Str(TranscriptionErrorText)
    ELSE IF Truthy(reply.text) THEN Str(Strip(reply.text))
    ELSE Str(TranscriptionEmptyText)

\* The reply stored as it came, without the coercion to NEUTRAL.
analyze_sentiment_uncoerced(key, text, reply) ==
    IF ~key \/ ~Truthy(text) THEN None
    ELSE IF reply.raises THEN None
    ELSE Str(Upper(Strip(reply.text)))

\* The reply uppercased but not stripped.
analyze_sentiment_unstripped(key, text, reply) ==
    IF ~key \/ ~Truthy(text) THEN None
    ELSE IF reply.raises THEN None
    ELSE LET sentiment == Upper(reply.text)
         IN IF sentiment \in SENTIMENT_CHOICES THEN Str(sentiment)
            ELSE Str("NEUTRAL")

analyze_sentiment_with_gemini(key, text, reply) ==
    IF ~key \/ ~Truthy(text) THEN None
    ELSE IF reply.raises THEN None
    ELSE LET sentiment == Upper(Strip(reply.text))
         IN IF sentiment \in SENTIMENT_CHOICES THEN Str(sentiment)
            ELSE Str("NEUTRAL")

\* The synthetic text of give_feedback_view: one sentence per rated slot.
RECURSIVE synthetic_text_parts(_, _, _)
synthetic_text_parts(questions, ratings, i) ==
    IF i > 5 THEN <<>>
    ELSE (IF ratings[i] # NoRating /\ i <= Len(questions)
          THEN << "For the question '" \o questions[i]
                  \o "', the rating given was '"
                  \o RATING_DESCRIPTIVE_LABELS[ratings[i]] \o "'." >>
          ELSE <<>>)
         \o synthetic_text_parts(questions, ratings, i + 1)

\* The k-th rated slot paired with the k-th question, not with its own.
RECURSIVE synthetic_parts_by_count(_, _, _, _)
synthetic_parts_by_count(questions, ratings, i, k) ==
    IF i > 5 THEN <<>>
    ELSE IF ratings[i] # NoRating
    THEN << "For the question '" \o questions[k]
            \o "', the rating given was '"
            \o RATING_DESCRIPTIVE_LABELS[ratings[i]] \o "'." >>
         \o synthetic_parts_by_count(questions, ratings, i + 1, k + 1)
    ELSE synthetic_parts_by_count(questions, ratings, i + 1, k)

synthetic_text_by_count(category, ratings) ==
    Join(synthetic_parts_by_count(HARDCODED_CATEGORY_QUESTIONS[category], ratings, 1, 1))

synthetic_text(category, ratings) ==
    Join(synthetic_text_parts(HARDCODED_CATEGORY_QUESTIONS[category], ratings, 1))

\* An enrichment that calls sentiment classification whatever the text.
enrich_always_analyzes(feedback, key, treply, sreply) ==
    LET transcribes == feedback.input_method = "AUDIO" /\ feedback.audio_feedback
        transcribed_text == IF transcribes
                            THEN transcribe_audio_with_gemini(key, treply)
                            ELSE None
        text_feedback == IF IsTruthy(transcribed_text)
                         THEN transcribed_text.text
                         ELSE feedback.text_feedback
        has_text_content == Truthy(text_feedback) /\ Truthy(Strip(text_feedback))
        text_to_analyze == IF ~has_text_content /\ has_any_rating(feedback.ratings)
                           THEN synthetic_text(feedback.category, feedback.ratings)
                           ELSE text_feedback
        sentiment_result == analyze_sentiment_with_gemini(key, text_to_analyze, sreply)
    IN [feedback |-> [feedback EXCEPT
                        !.text_feedback = text_feedback,
                        !.sentiment = IF IsTruthy(sentiment_result)
                                      THEN sentiment_result.text
                                      ELSE feedback.sentiment],
        analyzed |-> <<text_to_analyze>>,
        transcribed |-> transcribes]

\* give_feedback_view between its two saves: the object as the second save
\* writes it, and the texts analyze_sentiment_with_gemini was called with.
enrich(feedback, key, treply, sreply) ==
    LET transcribes == feedback.input_method = "AUDIO" /\ feedback.audio_feedback
        transcribed_text == IF transcribes
                            THEN transcribe_audio_with_gemini(key, treply)
                            ELSE None
        text_feedback == IF IsTruthy(transcribed_text)
                         THEN transcribed_text.text
                         ELSE feedback.text_feedback
        text0 == text_feedback
        has_text_content == Truthy(text0) /\ Truthy(Strip(text0))
        text_to_analyze == IF ~has_text_content /\ has_any_rating(feedback.ratings)
                           THEN synthetic_text(feedback.category, feedback.ratings)
                           ELSE text0
        analyzes == Truthy(text_to_analyze) /\ Truthy(Strip(text_to_analyze))
        sentiment_result == IF analyzes
                            THEN analyze_sentiment_with_gemini(key, text_to_analyze, sreply)
                            ELSE None
    IN [feedback |-> [feedback EXCEPT
                        !.text_feedback = text_feedback,
                        !.sentiment = IF IsTruthy(sentiment_result)
                                      THEN sentiment_result.text
                                      ELSE feedback.sentiment],
        analyzed |-> IF analyzes THEN <<text_to_analyze>> ELSE <<>>,
        transcribed |-> transcribes]

-----------------------------------------------------------------------------
(* Users, roles and the response record *)

Exists(u) == u \in DOMAIN users

\* login_required: the session's user exists and is active.
is_authenticated(u) == Exists(u) /\ users[u].is_active

is_student(u) == users[u].role = "STUDENT"
is_coordinator(u) == users[u].role = "COORDINATOR"

NoFid == 0

\* What the request handled last answered: the view, the actor, the Feedback
\* it named, the outcome, the student it named, the Feedback rows whose data the
\* response carries, the texts sentiment classification was called with, the
\* prompts sent to the summarisation model, and the summary returned.
Response(op, actor, target, status) ==
    [op |-> op, actor |-> actor, target |-> target, status |-> status,
     student |-> NULL, form |-> <<>>, request |-> <<>>, shown |-> {}, analyzed |-> <<>>, gateway |-> <<>>, prompts |-> <<>>,
     summary |-> <<>>, result |-> <<>>]

\* Model.save() of a Feedback object that has a primary key: the foreign
\* keys of the written row must name existing rows.
save_raises(feedback) ==
    \/ ~Exists(feedback.student)
    \/ /\ feedback.department_at_submission # NULL
       /\ feedback.department_at_submission \notin departments

\* UPDATE by primary key, INSERT when no row has it.
save(feedback) ==
    [id \in DOMAIN feedbacks \cup {feedback.id} |->
        IF id = feedback.id THEN feedback ELSE feedbacks[id]]

StudentResponse(op, actor, student, status) ==
    [Response(op, actor, NoFid, status) EXCEPT !.student = student]

-----------------------------------------------------------------------------
(* The views *)

Init ==
    /\ departments = Depts
    /\ users = [u \in Coordinators |->
                  [role |-> "COORDINATOR",
                   department |-> IF u = "c1" THEN "CS" ELSE "EE",
                   is_active |-> TRUE, is_verified |-> TRUE]]
    /\ feedbacks = <<>>
    /\ nextId = 1
    /\ inflight = {}
    /\ last = Response("none", NULL, NoFid, "none")

\* signup_view with a valid SignupForm: SignupForm.save.
signup_view(s, d) ==
    /\ ~Exists(s)
    /\ d \in departments
    /\ users' = [u \in DOMAIN users \cup {s} |->
                   IF u = s
                   THEN [role |-> "STUDENT", department |-> d,
                         is_active |-> TRUE, is_verified |-> FALSE]
                   ELSE users[u]]
    /\ last' = Response("signup", s, NoFid, "ok")
    /\ UNCHANGED <<departments, feedbacks, nextId, inflight>>

\* A submission that does not look at the student's department.
give_feedback_view_create_any_profile(s, form) ==
    /\ is_authenticated(s)
    /\ IF ~is_student(s)
       THEN /\ last' = [Response("give_feedback", s, NoFid, "forbidden")
                          EXCEPT !.form = <<form>>]
            /\ UNCHANGED <<feedbacks, nextId, inflight>>
       ELSE IF ~form_is_valid(form)
       THEN /\ last' = [Response("give_feedback", s, NoFid, "invalid")
                          EXCEPT !.form = <<form>>]
            /\ UNCHANGED <<feedbacks, nextId, inflight>>
       ELSE /\ LET feedback == new_feedback(nextId, s, users[s].department, form)
               IN /\ feedbacks' = save(feedback)
                  /\ inflight' = inflight \cup
                        {[op |-> "give_feedback", actor |-> s, feedback |-> feedback]}
            /\ nextId' = nextId + 1
            /\ last' = [Response("give_feedback", s, nextId, "saved")
                          EXCEPT !.form = <<form>>]
    /\ UNCHANGED <<users, departments>>

\* give_feedback_view, a POST, up to and with its first save.
give_feedback_view_create(s, form) ==
    /\ is_authenticated(s)
    /\ IF ~is_student(s)
       THEN /\ last' = [Response("give_feedback", s, NoFid, "forbidden")
                          EXCEPT !.form = <<form>>]
            /\ UNCHANGED <<feedbacks, nextId, inflight>>
       ELSE IF users[s].department = NULL
       THEN /\ last' = [Response("give_feedback", s, NoFid, "incomplete_profile")
                          EXCEPT !.form = <<form>>]
            /\ UNCHANGED <<feedbacks, nextId, inflight>>
       ELSE IF ~form_is_valid(form)
       THEN /\ last' = [Response("give_feedback", s, NoFid, "invalid")
                          EXCEPT !.form = <<form>>]
            /\ UNCHANGED <<feedbacks, nextId, inflight>>
       ELSE /\ LET feedback == new_feedback(nextId, s, users[s].department, form)
               IN /\ feedbacks' = save(feedback)
                  /\ inflight' = inflight \cup
                        {[op |-> "give_feedback", actor |-> s, feedback |-> feedback]}
            /\ nextId' = nextId + 1
            /\ last' = [Response("give_feedback", s, nextId, "saved")
                          EXCEPT !.form = <<form>>]
    /\ UNCHANGED <<users, departments>>

\* An enrichment that lets an error of the gateway escape the view.
give_feedback_view_enrich_uncaught(r, key, treply, sreply) ==
    /\ r \in inflight /\ r.op = "give_feedback"
    /\ inflight' = inflight \ {r}
    /\ LET e == enrich(r.feedback, key, treply, sreply)
       IN IF save_raises(e.feedback) \/ (key /\ (treply.raises \/ sreply.raises))
          THEN /\ last' = Response("give_feedback", r.actor, r.feedback.id, "server_error")
               /\ UNCHANGED feedbacks
          ELSE /\ feedbacks' = save(e.feedback)
               /\ last' = [Response("give_feedback", r.actor, r.feedback.id, "success")
                             EXCEPT !.analyzed = e.analyzed,
                                    !.gateway = <<key, treply, sreply>>]
    /\ UNCHANGED <<users, departments, nextId>>

\* An enrichment whose second save takes the department from the
\* student's Profile again.
give_feedback_view_enrich_resnapshot(r, key, treply, sreply) ==
    /\ r \in inflight /\ r.op = "give_feedback"
    /\ inflight' = inflight \ {r}
    /\ LET e == enrich(r.feedback, key, treply, sreply)
           feedback == IF Exists(r.actor)
                       THEN [e.feedback EXCEPT
                               !.department_at_submission = users[r.actor].department]
                       ELSE e.feedback
       IN IF save_raises(feedback)
          THEN /\ last' = Response("give_feedback", r.actor, r.feedback.id, "server_error")
               /\ UNCHANGED feedbacks
          ELSE /\ feedbacks' = save(feedback)
               /\ last' = [Response("give_feedback", r.actor, r.feedback.id, "success")
                             EXCEPT !.analyzed = e.analyzed,
                                    !.gateway = <<key, treply, sreply>>]
    /\ UNCHANGED <<users, departments, nextId>>

\* give_feedback_view from its first save to its response: the gateway
\* calls and the second save.
give_feedback_view_enrich(r, key, treply, sreply) ==
    /\ r \in inflight /\ r.op = "give_feedback"
    /\ inflight' = inflight \ {r}
    /\ LET e == enrich(r.feedback, key, treply, sreply)
       IN IF save_raises(e.feedback)
          THEN /\ last' = Response("give_feedback", r.actor, r.feedback.id, "server_error")
               /\ UNCHANGED feedbacks
          ELSE /\ feedbacks' = save(e.feedback)
               /\ last' = [Response("give_feedback", r.actor, r.feedback.id, "success")
                             EXCEPT !.analyzed = e.analyzed,
                                    !.gateway = <<key, treply, sreply>>]
    /\ UNCHANGED <<users, departments, nextId>>

\* Any coordinator may view, whatever the department.
can_view_any_coordinator(actor, feedback) ==
    \/ feedback.student = actor
    \/ users[actor].role = "COORDINATOR"

can_view(actor, feedback) ==
    \/ feedback.student = actor
    \/ /\ users[actor].role = "COORDINATOR"
       /\ feedback.department_at_submission = users[actor].department

view_feedback_detail(a, f) ==
    /\ is_authenticated(a)
    /\ last' = IF f \notin DOMAIN feedbacks
               THEN Response("view_feedback_detail", a, f, "not_found")
               ELSE IF ~can_view(a, feedbacks[f])
               THEN Response("view_feedback_detail", a, f, "denied")
               ELSE [Response("view_feedback_detail", a, f, "ok")
                       EXCEPT !.shown = {feedbacks[f]}]
    /\ UNCHANGED <<users, departments, feedbacks, nextId, inflight>>

\* A delete that does not look at the owner.
delete_feedback_view_any_actor(a, f) ==
    /\ is_authenticated(a)
    /\ IF f \notin DOMAIN feedbacks
       THEN /\ last' = Response("delete_feedback", a, f, "not_found")
            /\ UNCHANGED feedbacks
       ELSE /\ feedbacks' = [id \in DOMAIN feedbacks \ {f} |-> feedbacks[id]]
            /\ last' = Response("delete_feedback", a, f, "success")
    /\ UNCHANGED <<users, departments, nextId, inflight>>

delete_feedback_view(a, f) ==
    /\ is_authenticated(a)
    /\ IF f \notin DOMAIN feedbacks
       THEN /\ last' = Response("delete_feedback", a, f, "not_found")
            /\ UNCHANGED feedbacks
       ELSE IF feedbacks[f].student # a
       THEN /\ last' = Response("delete_feedback", a, f, "denied")
            /\ UNCHANGED feedbacks
       ELSE /\ feedbacks' = [id \in DOMAIN feedbacks \ {f} |-> feedbacks[id]]
            /\ last' = Response("delete_feedback", a, f, "success")
    /\ UNCHANGED <<users, departments, nextId, inflight>>

\* A revocation that does not look at is_anonymous.
revoke_anonymity_view_read_any_row(a, f) ==
    /\ is_authenticated(a)
    /\ IF ~is_student(a)
       THEN /\ last' = Response("revoke_anonymity", a, f, "forbidden")
            /\ UNCHANGED inflight
       ELSE IF f \notin DOMAIN feedbacks
       THEN /\ last' = Response("revoke_anonymity", a, f, "not_found")
            /\ UNCHANGED inflight
       ELSE IF feedbacks[f].student # a
       THEN /\ last' = Response("revoke_anonymity", a, f, "denied")
            /\ UNCHANGED inflight
       ELSE /\ inflight' = inflight \cup
                  {[op |-> "revoke_anonymity", actor |-> a, feedback |-> feedbacks[f]]}
            /\ last' = Response("revoke_anonymity", a, f, "read")
    /\ UNCHANGED <<users, departments, feedbacks, nextId>>

\* revoke_anonymity_view up to its save: the row is read and checked.
revoke_anonymity_view_read(a, f) ==
    /\ is_authenticated(a)
    /\ IF ~is_student(a)
       THEN /\ last' = Response("revoke_anonymity", a, f, "forbidden")
            /\ UNCHANGED inflight
       ELSE IF f \notin DOMAIN feedbacks
       THEN /\ last' = Response("revoke_anonymity", a, f, "not_found")
            /\ UNCHANGED inflight
       ELSE IF feedbacks[f].student # a
       THEN /\ last' = Response("revoke_anonymity", a, f, "denied")
            /\ UNCHANGED inflight
       ELSE IF ~feedbacks[f].is_anonymous
       THEN /\ last' = Response("revoke_anonymity", a, f, "not_anonymous")
            /\ UNCHANGED inflight
       ELSE /\ inflight' = inflight \cup
                  {[op |-> "revoke_anonymity", actor |-> a, feedback |-> feedbacks[f]]}
            /\ last' = Response("revoke_anonymity", a, f, "read")
    /\ UNCHANGED <<users, departments, feedbacks, nextId>>

\* revoke_anonymity_view: the flag is set on the object read and it is saved.
revoke_anonymity_view_save(r) ==
    /\ r \in inflight /\ r.op = "revoke_anonymity"
    /\ inflight' = inflight \ {r}
    /\ LET feedback == [r.feedback EXCEPT !.anonymity_revoked = TRUE]
       IN IF save_raises(feedback)
          THEN /\ last' = Response("revoke_anonymity", r.actor, feedback.id, "server_error")
               /\ UNCHANGED feedbacks
          ELSE /\ feedbacks' = save(feedback)
               /\ last' = Response("revoke_anonymity", r.actor, feedback.id, "success")
    /\ UNCHANGED <<users, departments, nextId>>

\* get_object_or_404(User, id=student_id, profile__role='STUDENT')
student_or_404(s) == Exists(s) /\ users[s].role = "STUDENT"

\* An approval that does not compare the departments.
approve_student_view_any_department(c, s) ==
    /\ is_authenticated(c)
    /\ IF ~is_coordinator(c)
       THEN /\ last' = StudentResponse("approve_student", c, s, "forbidden")
            /\ UNCHANGED users
       ELSE IF ~student_or_404(s)
       THEN /\ last' = StudentResponse("approve_student", c, s, "not_found")
            /\ UNCHANGED users
       ELSE /\ users' = [users EXCEPT ![s].is_active = TRUE, ![s].is_verified = TRUE]
            /\ last' = StudentResponse("approve_student", c, s, "success")
    /\ UNCHANGED <<departments, feedbacks, nextId, inflight>>

approve_student_view(c, s) ==
    /\ is_authenticated(c)
    /\ IF ~is_coordinator(c)
       THEN /\ last' = StudentResponse("approve_student", c, s, "forbidden")
            /\ UNCHANGED users
       ELSE IF ~student_or_404(s)
       THEN /\ last' = StudentResponse("approve_student", c, s, "not_found")
            /\ UNCHANGED users
       ELSE IF users[s].department # users[c].department
       THEN /\ last' = StudentResponse("approve_student", c, s, "denied")
            /\ UNCHANGED users
       ELSE /\ users' = [users EXCEPT ![s].is_active = TRUE, ![s].is_verified = TRUE]
            /\ last' = StudentResponse("approve_student", c, s, "success")
    /\ UNCHANGED <<departments, feedbacks, nextId, inflight>>

\* A rejection that deactivates the identity and keeps it.
reject_student_view_deactivate(c, s) ==
    /\ is_authenticated(c)
    /\ IF ~is_coordinator(c)
       THEN /\ last' = StudentResponse("reject_student", c, s, "forbidden")
            /\ UNCHANGED <<users, feedbacks>>
       ELSE IF ~student_or_404(s)
       THEN /\ last' = StudentResponse("reject_student", c, s, "not_found")
            /\ UNCHANGED <<users, feedbacks>>
       ELSE IF users[s].department # users[c].department
       THEN /\ last' = StudentResponse("reject_student", c, s, "denied")
            /\ UNCHANGED <<users, feedbacks>>
       ELSE /\ users' = [users EXCEPT ![s].is_active = FALSE]
            /\ UNCHANGED feedbacks
            /\ last' = StudentResponse("reject_student", c, s, "success")
    /\ UNCHANGED <<departments, nextId, inflight>>

\* User.delete(): Profile.user and Feedback.student are on_delete=CASCADE.
delete_user(s) ==
    /\ users' = [u \in DOMAIN users \ {s} |-> users[u]]
    /\ feedbacks' = [id \in {i \in DOMAIN feedbacks : feedbacks[i].student # s} |->
                        feedbacks[id]]

reject_student_view(c, s) ==
    /\ is_authenticated(c)
    /\ IF ~is_coordinator(c)
       THEN /\ last' = StudentResponse("reject_student", c, s, "forbidden")
            /\ UNCHANGED <<users, feedbacks>>
       ELSE IF ~student_or_404(s)
       THEN /\ last' = StudentResponse("reject_student", c, s, "not_found")
            /\ UNCHANGED <<users, feedbacks>>
       ELSE IF users[s].department # users[c].department
       THEN /\ last' = StudentResponse("reject_student", c, s, "denied")
            /\ UNCHANGED <<users, feedbacks>>
       ELSE /\ delete_user(s)
            /\ last' = StudentResponse("reject_student", c, s, "success")
    /\ UNCHANGED <<departments, nextId, inflight>>

-----------------------------------------------------------------------------
(* The admin site: Department and Profile are registered with it *)

\* Deleting a Department: Profile.department and
\* Feedback.department_at_submission are on_delete=SET_NULL.
admin_delete_department(d) ==
    /\ d \in departments
    /\ departments' = departments \ {d}
    /\ users' = [u \in DOMAIN users |->
                   IF users[u].department = d
                   THEN [users[u] EXCEPT !.department = NULL]
                   ELSE users[u]]
    /\ feedbacks' = [id \in DOMAIN feedbacks |->
                       IF feedbacks[id].department_at_submission = d
                       THEN [feedbacks[id] EXCEPT !.department_at_submission = NULL]
                       ELSE feedbacks[id]]
    /\ last' = Response("admin_delete_department", NULL, NoFid, "ok")
    /\ UNCHANGED <<nextId, inflight>>

\* ProfileAdmin: the department of a Profile is changed.
admin_change_profile(u, d) ==
    /\ Exists(u)
    /\ d \in departments
    /\ users[u].department # d
    /\ users' = [users EXCEPT ![u].department = d]
    /\ last' = Response("admin_change_profile", NULL, NoFid, "ok")
    /\ UNCHANGED <<departments, feedbacks, nextId, inflight>>

-----------------------------------------------------------------------------
(* summarize_feedback_view *)

CategoryDisplay(c) ==
    CASE c = "TEACHING" -> "Teaching"
      [] c = "INFRASTRUCTURE" -> "Infrastructure"
      [] c = "TRANSPORT" -> "Transport"
      [] c = "EXTRACURRICULAR" -> "Extracurricular Activities"
      [] c = "STAFF_BEHAVIOUR" -> "Staff Behaviour"
      [] c = "CANTEEN" -> "Canteen"
      [] c = "LIBRARY" -> "Library"

RECURSIVE rating_lines(_, _, _)
rating_lines(questions, ratings, i) ==
    IF i > 5 THEN ""
    ELSE (IF ratings[i] # NoRating
          THEN "  - \"" \o questions[i] \o "\": "
               \o RATING_DESCRIPTIVE_LABELS[ratings[i]]
               \o " (" \o ToString(ratings[i]) \o "/5)\n"
          ELSE "  - \"" \o questions[i] \o "\": Not Rated\n")
         \o rating_lines(questions, ratings, i + 1)

\* The context of one entry with the questions of the first binding.
entry_context_first_binding(entry) ==
    "Feedback Entry #" \o ToString(entry.id) \o ":\n"
    \o "- Category: " \o CategoryDisplay(entry.category) \o "\n"
    \o "- Ratings Given:\n"
    \o rating_lines(HARDCODED_CATEGORY_QUESTIONS_first[entry.category],
                    entry.ratings, 1)
    \o (IF Truthy(entry.text_feedback) /\ Truthy(Strip(entry.text_feedback))
        THEN "- Student's Comment: \"" \o Strip(entry.text_feedback) \o "\"\n"
        ELSE "")
    \o "\n---\n\n"

\* The context of one entry, with the separator that follows it.
entry_context(entry) ==
    "Feedback Entry #" \o ToString(entry.id) \o ":\n"
    \o "- Category: " \o CategoryDisplay(entry.category) \o "\n"
    \o (IF entry.category \in DOMAIN HARDCODED_CATEGORY_QUESTIONS
        THEN "- Ratings Given:\n"
             \o rating_lines(HARDCODED_CATEGORY_QUESTIONS[entry.category],
                             entry.ratings, 1)
        ELSE "")
    \o (IF Truthy(entry.text_feedback) /\ Truthy(Strip(entry.text_feedback))
        THEN "- Student's Comment: \"" \o Strip(entry.text_feedback) \o "\"\n"
        ELSE "")
    \o "\n---\n\n"

\* The entries of a queryset, newest first (Feedback.Meta.ordering).
RECURSIVE all_feedback_context(_)
all_feedback_context(ids) ==
    IF ids = {} THEN ""
    ELSE LET newest == CHOOSE i \in ids : \A j \in ids : j <= i
         IN entry_context(feedbacks[newest]) \o all_feedback_context(ids \ {newest})

SummaryPrompt ==
    "You are an assistant for a university department coordinator. "
    \o "Your task is to analyze and summarize the following structured student feedback entries, which are separated by '---'. "
    \o "For each entry, you will be given the category, specific ratings for predefined questions, and sometimes a text comment. "
    \o "Your summary should be concise, in 3 to 5 key bullet points.(7 lines max) "
    \o "Synthesize information from BOTH the ratings and the text comments to identify patterns, common themes, and actionable insights. "
    \o "For example, if ratings for 'Clarity' are consistently low and comments mention 'fast lectures', connect these two points. "
    \o "Format your output using markdown for bullet points (e.g., Point 1).\n\n"
    \o "Here is the feedback:\n\n"

NothingToSummarize ==
    "No feedback content (neither text nor ratings) was found in the selected entries to summarize."
SummaryBlocked ==
    "The AI was unable to generate a summary for this content, possibly due to safety filters or other restrictions."

\* The filter on id alone.
feedback_entries_any_department(feedback_ids, department) ==
    {id \in DOMAIN feedbacks :
        \E i \in 1..Len(feedback_ids) : feedback_ids[i] = id}

\* Feedback.objects.filter(id__in=feedback_ids, department_at_submission=...)
feedback_entries(feedback_ids, department) ==
    {id \in DOMAIN feedbacks :
        /\ \E i \in 1..Len(feedback_ids) : feedback_ids[i] = id
        /\ feedbacks[id].department_at_submission = department}

\* body is [json, is_object, is_list, feedback_ids]: the body parses as
\* JSON, the value is an object, its feedback_ids is a list, and the list.
\* reply is [raises, parts], recorded when the gateway was called.  An
\* exception the view does not catch leaves it: the status is uncaught_500.
summarize_feedback_view(c, key, body, reply) ==
    /\ is_authenticated(c)
    /\ LET R(status) == [Response("summarize_feedback", c, NoFid, status)
                           EXCEPT !.request = <<key, body>>]
           entries == feedback_entries(body.feedback_ids, users[c].department)
           context == all_feedback_context(entries)
           prompt == SummaryPrompt \o context
           Called(status) == [R(status) EXCEPT !.prompts = <<prompt>>,
                                               !.gateway = <<reply>>]
       IN last' =
            IF ~is_coordinator(c) THEN R("forbidden")
            ELSE IF ~key THEN R("503")
            ELSE IF ~body.json THEN R("400")
            ELSE IF ~body.is_object THEN R("uncaught_500")
            ELSE IF ~body.is_list \/ Len(body.feedback_ids) = 0 THEN R("400")
            ELSE IF Cardinality(entries) # Len(body.feedback_ids) THEN R("403")
            ELSE IF ~Truthy(Strip(context))
            THEN [R("200") EXCEPT !.summary = <<NothingToSummarize>>]
            ELSE IF reply.raises THEN Called("500")
            ELSE IF Len(reply.parts) > 0
            THEN [Called("200") EXCEPT !.summary = <<Concat(reply.parts)>>,
                                       !.shown = {feedbacks[id] : id \in entries}]
            ELSE [Called("200") EXCEPT !.summary = <<SummaryBlocked>>]
    /\ UNCHANGED <<users, departments, feedbacks, nextId, inflight>>

-----------------------------------------------------------------------------
(* analytics_view *)

\* A queryset's order_by on sentiment and on category__name: the values in
\* ascending order, null first.
SentimentOrder == <<NULL, "NEGATIVE", "NEUTRAL", "POSITIVE">>
CategoryOrder ==
    <<"CANTEEN", "EXTRACURRICULAR", "INFRASTRUCTURE", "LIBRARY",
      "STAFF_BEHAVIOUR", "TEACHING", "TRANSPORT">>

\* The filter on id alone: every department's rows.
department_feedback_all(department) == DOMAIN feedbacks

\* Feedback.objects.filter(department_at_submission=department)
department_feedback(department) ==
    {id \in DOMAIN feedbacks :
        feedbacks[id].department_at_submission = department}

\* values('sentiment').annotate(count=Count('id')).order_by('sentiment')
sentiment_distribution(department) ==
    LET count(v) == Cardinality({id \in department_feedback(department) :
                                    feedbacks[id].sentiment = v})
        groups == [i \in 1..Len(SentimentOrder) |->
                     [sentiment |-> SentimentOrder[i],
                      count |-> count(SentimentOrder[i])]]
    IN SelectSeq(groups, LAMBDA item : item.count > 0)

pie_chart_data(department) ==
    LET items == SelectSeq(sentiment_distribution(department),
                           LAMBDA item : item.sentiment
                                            \in {"POSITIVE", "NEGATIVE", "NEUTRAL"})
    IN [labels |-> [i \in 1..Len(items) |-> Capitalize(items[i].sentiment)],
        data |-> [i \in 1..Len(items) |-> items[i].count]]

\* filter(sentiment__in=...).values('category__name').annotate(...)
\* .order_by('category__name')
sentiment_by_category(department) ==
    LET rows == {id \in department_feedback(department) :
                    feedbacks[id].sentiment \in {"POSITIVE", "NEGATIVE"}}
        count(c, v) == Cardinality({id \in rows :
                                       /\ feedbacks[id].category = c
                                       /\ feedbacks[id].sentiment = v})
        groups == [i \in 1..Len(CategoryOrder) |->
                     [category__name |-> CategoryOrder[i],
                      positive_count |-> count(CategoryOrder[i], "POSITIVE"),
                      negative_count |-> count(CategoryOrder[i], "NEGATIVE")]]
    IN SelectSeq(groups, LAMBDA item : \E id \in rows :
                                          feedbacks[id].category = item.category__name)

bar_chart_data(department) ==
    LET items == sentiment_by_category(department)
    IN [labels |-> [i \in 1..Len(items) |-> CategoryDisplay(items[i].category__name)],
        positive_data |-> [i \in 1..Len(items) |-> items[i].positive_count],
        negative_data |-> [i \in 1..Len(items) |-> items[i].negative_count]]

\* The response carries the two charts: result is <<pie, bar>>.
analytics_view(c) ==
    /\ is_authenticated(c)
    /\ last' =
         IF ~is_coordinator(c) THEN Response("analytics", c, NoFid, "forbidden")
         ELSE IF users[c].department = NULL
         THEN Response("analytics", c, NoFid, "no_department")
         ELSE [Response("analytics", c, NoFid, "ok")
                 EXCEPT !.result = <<pie_chart_data(users[c].department),
                                     bar_chart_data(users[c].department)>>]
    /\ UNCHANGED <<users, departments, feedbacks, nextId, inflight>>

-----------------------------------------------------------------------------
(* Requests and replies *)

FormTexts == {"", "  ", " good "}
FormRatings == {NoRatings, <<5, 4, NoRating, NoRating, NoRating>>,
                <<NoRating, 3, NoRating, NoRating, 1>>}
FormCategories == {"TEACHING", "LIBRARY"}

Forms ==
    [category : FormCategories, input_method : INPUT_METHOD_CHOICES,
     text_feedback : FormTexts, audio_feedback : BOOLEAN,
     ratings : FormRatings, is_anonymous : BOOLEAN]

Raises == [raises |-> TRUE, text |-> ""]
Text(s) == [raises |-> FALSE, text |-> s]

TranscribeReplies == {Raises, Text(""), Text("  "), Text(" spoken words\n")}
SentimentReplies ==
    {Raises, Text("POSITIVE"), Text(" negative\n"), Text("Neutral"),
     Text("mixed feelings"), Text("")}

IdsUpTo(n) == 1..n
FeedbackIds == IdsUpTo(MaxFeedbackId)

RECURSIVE SeqsUpTo(_, _)
SeqsUpTo(S, n) ==
    IF n = 0 THEN {<<>>}
    ELSE LET shorter == SeqsUpTo(S, n - 1)
         IN shorter \cup {Append(q, x) : q \in shorter, x \in S}

BodiesOver(ids) ==
    {[json |-> FALSE, is_object |-> FALSE, is_list |-> FALSE, feedback_ids |-> <<>>],
     [json |-> TRUE, is_object |-> FALSE, is_list |-> FALSE, feedback_ids |-> <<>>],
     [json |-> TRUE, is_object |-> TRUE, is_list |-> FALSE, feedback_ids |-> <<>>]}
    \cup {[json |-> TRUE, is_object |-> TRUE, is_list |-> TRUE, feedback_ids |-> q] :
             q \in SeqsUpTo(ids, MaxIds)}

Bodies == BodiesOver(FeedbackIds)

SummaryReplies ==
    {[raises |-> TRUE, parts |-> <<>>],
     [raises |-> FALSE, parts |-> <<>>],
     [raises |-> FALSE, parts |-> <<"* Point 1", "\n* Point 2">>]}

-----------------------------------------------------------------------------------------------------------------------------------------------------
(* The portal: every view and the admin site, one row of Feedback *)

PortalForms ==
    {[category |-> "TEACHING", input_method |-> "TEXT", text_feedback |-> " good ",
      audio_feedback |-> FALSE, ratings |-> NoRatings, is_anonymous |-> FALSE],
     [category |-> "TEACHING", input_method |-> "TEXT", text_feedback |-> "",
      audio_feedback |-> FALSE, ratings |-> <<5, 4, NoRating, NoRating, NoRating>>,
      is_anonymous |-> TRUE],
     [category |-> "LIBRARY", input_method |-> "AUDIO", text_feedback |-> "  ",
      audio_feedback |-> FALSE, ratings |-> NoRatings, is_anonymous |-> TRUE]}

\* The model's bounds on the table and on the requests in flight.
InflightRoom == Cardinality(inflight) < MaxInflight
HasRoom == nextId <= MaxFeedbackId /\ InflightRoom

\* The sessions that send requests: both students and the coordinator of
\* CS, who is of another department for the students of EE.
Actors == Students \cup {"c1"}

Next ==
    \/ \E s \in Students, d \in Depts : signup_view(s, d)
    \/ \E a \in Actors, form \in PortalForms :
          HasRoom /\ give_feedback_view_create(a, form)
    \/ \E r \in inflight, key \in BOOLEAN :
          give_feedback_view_enrich(r, key, Text(" spoken words\n"), Text("POSITIVE"))
    \/ \E a \in Actors, f \in FeedbackIds : view_feedback_detail(a, f)
    \/ \E a \in Actors, f \in FeedbackIds : delete_feedback_view(a, f)
    \/ \E a \in Actors, f \in FeedbackIds :
          InflightRoom /\ revoke_anonymity_view_read(a, f)
    \/ \E r \in inflight : revoke_anonymity_view_save(r)
    \/ \E c \in {"c1", "s1"}, s \in Students : approve_student_view(c, s)
    \/ \E c \in {"c1", "s1"}, s \in Students : reject_student_view(c, s)
    \/ \E body \in Bodies :
          summarize_feedback_view("c1", TRUE, body, [raises |-> FALSE, parts |-> <<"* Point 1">>])
    \/ \E c \in {"c1", "s1"} : analytics_view(c)
    \/ \E d \in Depts : admin_delete_department(d)
    \/ \E u \in Students, d \in Depts : admin_change_profile(u, d)

Spec == Init /\ [][Next]_vars

-----------------------------------------------------------------------------
(* The submission pipeline: one student, every form and every reply *)

PipelineIds == IdsUpTo(MaxPipelineId)
PipelineHasRoom == nextId <= MaxPipelineId /\ Cardinality(inflight) < MaxInflight

NextPipeline ==
    \/ \E d \in Depts : signup_view("s1", d)
    \/ \E a \in {"s1", "c1"}, form \in Forms :
          PipelineHasRoom /\ give_feedback_view_create(a, form)
    \/ \E r \in inflight, key \in BOOLEAN, treply \in TranscribeReplies,
          sreply \in SentimentReplies :
          give_feedback_view_enrich(r, key, treply, sreply)
    \/ \E f \in PipelineIds : delete_feedback_view("s1", f)
    \/ reject_student_view("c1", "s1")
    \/ \E d \in Depts : admin_delete_department(d)

SpecPipeline == Init /\ [][NextPipeline]_vars

-----------------------------------------------------------------------------
(* The coordinator's summaries: two rows of Feedback, the views that fill  *)
(* and empty the table, and summarize_feedback_view                        *)

SummaryForms ==
    {[category |-> "TEACHING", input_method |-> "TEXT", text_feedback |-> " good ",
      audio_feedback |-> FALSE, ratings |-> <<5, 4, NoRating, NoRating, NoRating>>,
      is_anonymous |-> FALSE],
     [category |-> "LIBRARY", input_method |-> "AUDIO", text_feedback |-> "",
      audio_feedback |-> TRUE, ratings |-> NoRatings, is_anonymous |-> TRUE]}

SummaryIds == IdsUpTo(MaxSummaryId)
SummaryHasRoom == nextId <= MaxSummaryId /\ inflight = {}

NextSummary ==
    \/ \E s \in Students, d \in Depts : signup_view(s, d)
    \/ \E a \in Students, form \in SummaryForms :
          SummaryHasRoom /\ give_feedback_view_create(a, form)
    \/ \E r \in inflight :
          give_feedback_view_enrich(r, FALSE, Raises, Raises)
    \/ \E d \in Depts : admin_delete_department(d)
    \/ \E body \in BodiesOver(SummaryIds), reply \in SummaryReplies :
          summarize_feedback_view("c1", TRUE, body, reply)
    \/ \E body \in BodiesOver(SummaryIds) :
          summarize_feedback_view("c1", FALSE, body, [raises |-> TRUE, parts |-> <<>>])
    \/ \E body \in BodiesOver(SummaryIds) :
          summarize_feedback_view("s1", TRUE, body, [raises |-> TRUE, parts |-> <<>>])

SpecSummary == Init /\ [][NextSummary]_vars

-----------------------------------------------------------------------------
(* The gateway helper alone: analyze_sentiment_with_gemini, called with    *)
(* every text and every reply                                              *)

SentimentTexts ==
    {"", " ", "good", "the food is bad",
     "For the question 'Clarity of explanations?', the rating given was 'Excellent'."}

ClassifyReplies ==
    SentimentReplies \cup
    {Text("positive"), Text(" Positive\n"), Text("NEGATIVE"), Text("NEUTRAL"),
     Text("POSITIVE."), Text("The sentiment is positive"), Text("  ")}

\* One call of the helper: what it was called with and what it returned.
call_analyze_sentiment(key, text, reply) ==
    /\ last' = [Response("analyze_sentiment", NULL, NoFid, "returned")
                  EXCEPT !.request = <<key, text, reply>>,
                         !.result = <<analyze_sentiment_with_gemini(key, text, reply)>>]
    /\ UNCHANGED <<users, departments, feedbacks, nextId, inflight>>

NextGateway ==
    \E key \in BOOLEAN, text \in SentimentTexts, reply \in ClassifyReplies :
        call_analyze_sentiment(key, text, reply)

SpecGateway == Init /\ [][NextGateway]_vars

-----------------------------------------------------------------------------
(* The coordinator's charts: three rows of Feedback of two departments,    *)
(* every sentiment, and analytics_view                                     *)


AnalyticsForms ==
    {[category |-> c, input_method |-> "TEXT", text_feedback |-> " good ",
      audio_feedback |-> FALSE, ratings |-> NoRatings, is_anonymous |-> FALSE] :
        c \in FormCategories}

AnalyticsReplies == {Raises, Text("POSITIVE"), Text("NEGATIVE"), Text("Neutral")}

AnalyticsHasRoom == nextId <= MaxAnalyticsId /\ inflight = {}

NextAnalytics ==
    \/ signup_view("s1", "CS")
    \/ signup_view("s2", "EE")
    \/ \E a \in Students, form \in AnalyticsForms :
          AnalyticsHasRoom /\ give_feedback_view_create(a, form)
    \/ \E r \in inflight, sreply \in AnalyticsReplies :
          give_feedback_view_enrich(r, TRUE, Raises, sreply)
    \/ \E c \in {"c1", "c2", "s1"} : analytics_view(c)

SpecAnalytics == Init /\ [][NextAnalytics]_vars

-----------------------------------------------------------------------------
(* Properties of the submission pipeline (SpecPipeline) *)

Rows == {feedbacks[id] : id \in DOMAIN feedbacks}

\* A posted form with no non-blank text, no audio file and no rating.
NoContent(form) ==
    /\ \A i \in 1..Len(form.text_feedback) :
          SubSeq(form.text_feedback, i, i) \in Whitespace
    /\ ~form.audio_feedback
    /\ \A i \in 1..5 : form.ratings[i] = NoRating

\* C1: a submission with no non-blank text, no audio file and no rating is
\* rejected, with a validation error whenever a student with a department
\* posts it, whatever its input_method, and creates no Feedback row.
C1_EmptySubmissionRejected ==
    [][(/\ last'.op = "give_feedback"
        /\ Len(last'.form) = 1
        /\ NoContent(last'.form[1]))
       => /\ last'.status \in {"invalid", "incomplete_profile", "forbidden"}
          /\ (is_student(last'.actor) /\ users[last'.actor].department # NULL)
             => last'.status = "invalid"
          /\ feedbacks' = feedbacks
          /\ nextId' = nextId
          /\ inflight' = inflight]_vars

C1_Witness ==
    /\ last.op = "give_feedback"
    /\ last.status = "invalid"
    /\ Len(last.form) = 1
    /\ NoContent(last.form[1])
    /\ last.form[1].input_method = "AUDIO"
    /\ last.form[1].text_feedback = "  "

\* C8: the sentiment of every stored Feedback is POSITIVE, NEGATIVE, NEUTRAL
\* or null, whatever the gateway replied.
C8_SentimentCanonical ==
    \A row \in Rows : row.sentiment \in {"POSITIVE", "NEGATIVE", "NEUTRAL", NULL}

C8_Witness ==
    /\ last.op = "give_feedback"
    /\ last.status = "success"
    /\ last.gateway[1]
    /\ last.gateway[3] = Text("mixed feelings")
    /\ last.target \in DOMAIN feedbacks
    /\ feedbacks[last.target].sentiment = "NEUTRAL"

\* The foreign keys of an in-memory Feedback still name existing rows.
ReferencesIntact(feedback) ==
    /\ feedback.student \in DOMAIN users
    /\ feedback.department_at_submission \in departments \cup {NULL}

\* C9: whatever the gateway does during enrichment (unconfigured, raising,
\* empty, unexpected, successful), a validated submission whose student and
\* department still exist ends reported as successful with its row stored.
C9_EnrichmentNeverFails ==
    [][\A r \in inflight :
          (r.op = "give_feedback" /\ r \notin inflight'
             /\ ReferencesIntact(r.feedback))
          => /\ last'.op = "give_feedback"
             /\ last'.target = r.feedback.id
             /\ last'.status = "success"
             /\ r.feedback.id \in DOMAIN feedbacks']_vars

C9_Witness ==
    /\ last.op = "give_feedback"
    /\ last.status = "success"
    /\ last.gateway = <<TRUE, Raises, Raises>>
    /\ last.target \in DOMAIN feedbacks
    /\ feedbacks[last.target].input_method = "AUDIO"
    /\ feedbacks[last.target].audio_feedback
    /\ feedbacks[last.target].text_feedback = TranscriptionErrorText

\* The rated slots of a row, and the sentence the claim gives for a slot.
RatedSlots(ratings) == {i \in 1..5 : ratings[i] # NoRating}

RatingSentence(category, ratings, i) ==
    "For the question '" \o HARDCODED_CATEGORY_QUESTIONS[category][i]
    \o "', the rating given was '" \o RATING_DESCRIPTIVE_LABELS[ratings[i]] \o "'."

\* The sentences of the slots in S in slot order, single spaces between them.
RECURSIVE SentencesOf(_, _, _)
SentencesOf(category, ratings, S) ==
    IF S = {} THEN ""
    ELSE LET hi == CHOOSE i \in S : \A j \in S : j <= i
             before == SentencesOf(category, ratings, S \ {hi})
         IN (IF before = "" THEN "" ELSE before \o " ")
            \o RatingSentence(category, ratings, hi)

\* C10: when the row has no non-blank text after the transcription step and
\* has a rating, sentiment classification is called once, on exactly the
\* sentences of the rated slots in slot order; TEACHING with <<5, 4, -, -, ->>
\* gives the two sentences for Excellent and Good.
C10_SyntheticText ==
    (last.op = "give_feedback" /\ last.status = "success")
    => LET row == feedbacks[last.target]
       IN (Strip(row.text_feedback) = "" /\ RatedSlots(row.ratings) # {})
          => /\ last.analyzed =
                   <<SentencesOf(row.category, row.ratings, RatedSlots(row.ratings))>>
             /\ (row.category = "TEACHING"
                   /\ row.ratings = <<5, 4, NoRating, NoRating, NoRating>>
                 => last.analyzed =
                      << "For the question 'Clarity of explanations?', the rating given was 'Excellent'. "
                         \o "For the question 'Instructor engagement?', the rating given was 'Good'." >>)

C10_Witness ==
    /\ last.op = "give_feedback"
    /\ last.status = "success"
    /\ feedbacks[last.target].category = "TEACHING"
    /\ feedbacks[last.target].ratings = <<5, 4, NoRating, NoRating, NoRating>>
    /\ feedbacks[last.target].text_feedback = ""
    /\ last.analyzed =
         << "For the question 'Clarity of explanations?', the rating given was 'Excellent'. "
            \o "For the question 'Instructor engagement?', the rating given was 'Good'." >>

\* A transcription that failed: the service is unconfigured, the call
\* raised, or the transcript is empty.
TranscriptionFailed(gateway) ==
    \/ ~gateway[1]
    \/ gateway[2].raises
    \/ Strip(gateway[2].text) = ""

\* C11, as the specification states it: when the transcription of an AUDIO
\* submission fails, the text_feedback stored after the submission is the
\* text_feedback that was submitted.
C11_FailedTranscriptionKeepsText ==
    [][\A r \in inflight :
          (/\ r.op = "give_feedback" /\ r \notin inflight'
           /\ r.feedback.input_method = "AUDIO" /\ r.feedback.audio_feedback
           /\ last'.op = "give_feedback" /\ last'.status = "success"
           /\ last'.target = r.feedback.id
           /\ TranscriptionFailed(last'.gateway))
          => feedbacks'[r.feedback.id].text_feedback = r.feedback.text_feedback]_vars

\* What GiveFeedbackForm.clean is said to reject: no rating, and not the
\* input of the form's own mode.
LacksOwnInput(form) ==
    /\ \A i \in 1..5 : form.ratings[i] = NoRating
    /\ \/ form.input_method = "TEXT" /\ Strip(form.text_feedback) = ""
       \/ form.input_method = "AUDIO" /\ ~form.audio_feedback

\* A form that reached validation: posted by a student with a department.
Validated(response) ==
    /\ response.op = "give_feedback"
    /\ Len(response.form) = 1
    /\ response.status \in {"invalid", "saved"}

\* C20: validation rejects a submission exactly when it has no rating and
\* lacks the input of its own mode; so a submission with a rating passes,
\* and one whose only content is the other mode's input is rejected.
C20_RejectsExactlyWithoutOwnInput ==
    [][Validated(last')
       => /\ (last'.status = "invalid") <=> LacksOwnInput(last'.form[1])
          /\ last'.status = "invalid" => feedbacks' = feedbacks]_vars

C20_Witness ==
    /\ Validated(last)
    /\ last.status = "invalid"
    /\ last.form[1].input_method = "TEXT"
    /\ last.form[1].audio_feedback
    /\ Strip(last.form[1].text_feedback) = ""

\* C20, as the specification states it: every submission with non-blank
\* text, an audio file or a rating is accepted, whichever input_method it
\* declares.
C20_InvariantSufficesForAcceptance ==
    [][(Validated(last') /\ ~NoContent(last'.form[1]))
       => last'.status = "saved"]_vars

\* The outcomes of give_feedback_view up to its first save.
CreateStatuses == {"forbidden", "incomplete_profile", "invalid", "saved"}

\* C21: a Feedback row created by a submission has the submitting student as
\* its student and that student's Profile.department of that moment as its
\* department_at_submission; a submission of a student without a department
\* answers incomplete_profile and creates nothing; no row enters the table
\* with a null department_at_submission.
C21_CreatedWithOwnerAndDepartment ==
    [][/\ (last'.op = "give_feedback" /\ last'.status = "saved")
          => /\ last'.target \notin DOMAIN feedbacks
             /\ last'.target \in DOMAIN feedbacks'
             /\ feedbacks'[last'.target].student = last'.actor
             /\ feedbacks'[last'.target].department_at_submission
                   = users[last'.actor].department
       /\ (/\ last'.op = "give_feedback" /\ last'.status \in CreateStatuses
           /\ users[last'.actor].role = "STUDENT"
           /\ users[last'.actor].department = NULL)
          => /\ last'.status = "incomplete_profile"
             /\ UNCHANGED <<feedbacks, nextId, inflight>>
       /\ \A id \in DOMAIN feedbacks' \ DOMAIN feedbacks :
             feedbacks'[id].department_at_submission # NULL]_vars

\* A valid form submitted by a student who has no department.
C21_Witness ==
    /\ last.op = "give_feedback"
    /\ last.status = "incomplete_profile"
    /\ form_is_valid(last.form[1])
    /\ users[last.actor].department = NULL
    /\ feedbacks = <<>>

\* The text of a submission that is analyzed: the stored text after the
\* transcription step when it is not blank, otherwise the sentences of the
\* rated slots.
AnalysisText(row) ==
    IF Strip(row.text_feedback) # "" THEN row.text_feedback
    ELSE SentencesOf(row.category, row.ratings, RatedSlots(row.ratings))

C23_PlaceholderNotAnalyzed ==
    [][\A r \in inflight :
          (/\ r.op = "give_feedback" /\ r \notin inflight'
           /\ r.feedback.input_method = "AUDIO" /\ r.feedback.audio_feedback
           /\ Strip(r.feedback.text_feedback) = ""
           /\ last'.op = "give_feedback" /\ last'.status = "success"
           /\ last'.target = r.feedback.id
           /\ TranscriptionFailed(last'.gateway))
          => /\ last'.analyzed =
                   IF RatedSlots(r.feedback.ratings) # {}
                   THEN <<SentencesOf(r.feedback.category, r.feedback.ratings,
                                      RatedSlots(r.feedback.ratings))>>
                   ELSE <<>>
             /\ RatedSlots(r.feedback.ratings) = {}
                  => feedbacks'[r.feedback.id].sentiment = NULL]_vars

\* C24, as the specification states it: an ID that was given out and has no
\* row (the row was deleted) has no row in the next state either.
C24_DeletedNeverReappears ==
    [][\A id \in 1..(nextId - 1) :
          id \notin DOMAIN feedbacks => id \notin DOMAIN feedbacks']_vars

-----------------------------------------------------------------------------
(* Properties of the gateway helper (SpecGateway) *)

\* Two strings that differ in the case of their letters at most.
SameIgnoringCase(a, b) ==
    /\ Len(a) = Len(b)
    /\ \A i \in 1..Len(a) : UpperChar(SubSeq(a, i, i)) = UpperChar(SubSeq(b, i, i))

\* C12: classify_sentiment returns null when the service is unconfigured,
\* the text is empty or the call raises; otherwise the label the trimmed
\* reply spells in any case, and NEUTRAL for every other reply.
C12_ClassifySentiment ==
    last.op = "analyze_sentiment"
    => LET key == last.request[1]
           text == last.request[2]
           reply == last.request[3]
           result == last.result[1]
           Labels == {"POSITIVE", "NEGATIVE", "NEUTRAL"}
           spelled == {L \in Labels : SameIgnoringCase(Strip(reply.text), L)}
       IN IF ~key \/ text = "" \/ reply.raises
          THEN result = None
          ELSE /\ ~result.none
               /\ \A L \in spelled : result.text = L
               /\ spelled = {} => result.text = "NEUTRAL"

C12_Witness ==
    /\ last.op = "analyze_sentiment"
    /\ last.request = <<TRUE, "good", Text(" negative\n")>>
    /\ last.result = <<Str("NEGATIVE")>>

-----------------------------------------------------------------------------
(* Properties of the coordinator's charts (SpecAnalytics) *)

\* The rows of a department, and their number with a sentiment.
RowsOf(department) ==
    {row \in Rows : row.department_at_submission = department}

NumberWith(department, sentiment) ==
    Cardinality({id \in DOMAIN feedbacks :
                    /\ feedbacks[id].department_at_submission = department
                    /\ feedbacks[id].sentiment = sentiment})

\* The label the pie chart shows for a sentiment.
PieLabel(sentiment) ==
    CASE sentiment = "POSITIVE" -> "Positive"
      [] sentiment = "NEGATIVE" -> "Negative"
      [] sentiment = "NEUTRAL" -> "Neutral"

\* C15: the sentiment distribution of a coordinator's department has, for
\* each of POSITIVE, NEGATIVE, NEUTRAL that occurs among the rows of the
\* department, one entry with the number of those rows, and no other entry;
\* rows with null sentiment or of another department are counted nowhere,
\* and the request changes no stored state.
C15_SentimentDistribution ==
    [][(last'.op = "analytics" /\ last'.status = "ok")
       => LET department == users[last'.actor].department
              pie == last'.result[1]
              occurring == {v \in {"POSITIVE", "NEGATIVE", "NEUTRAL"} :
                               NumberWith(department, v) > 0}
          IN /\ Len(pie.labels) = Cardinality(occurring)
             /\ Len(pie.data) = Cardinality(occurring)
             /\ \A v \in occurring :
                   \E i \in 1..Len(pie.labels) :
                      /\ pie.labels[i] = PieLabel(v)
                      /\ pie.data[i] = NumberWith(department, v)
             /\ UNCHANGED <<users, departments, feedbacks, nextId, inflight>>]_vars

C15_Witness ==
    /\ last.op = "analytics"
    /\ last.status = "ok"
    /\ last.actor = "c1"
    /\ last.result[1] = [labels |-> <<"Positive">>, data |-> <<1>>]
    /\ \E row \in RowsOf("CS") : row.sentiment = NULL
    /\ \E row \in RowsOf("EE") : row.sentiment = "POSITIVE"

\* The categories in the order of their names.
CategoriesByName(S) ==
    SelectSeq(CategoryOrder, LAMBDA c : c \in S)

\* C14, as the specification states it: sentiment_by_category has one entry
\* per category that has rows in the department, with the numbers of its
\* POSITIVE and of its NEGATIVE rows, in the order of the category names; a
\* category with NEUTRAL or null rows only has an entry with 0 and 0.
C14_SentimentByCategory ==
    (last.op = "analytics" /\ last.status = "ok")
    => LET department == users[last.actor].department
           bar == last.result[2]
           cats == CategoriesByName({row.category : row \in RowsOf(department)})
           N(c, v) == Cardinality({id \in DOMAIN feedbacks :
                                     /\ feedbacks[id].department_at_submission = department
                                     /\ feedbacks[id].category = c
                                     /\ feedbacks[id].sentiment = v})
       IN /\ bar.labels = [i \in 1..Len(cats) |-> CategoryDisplay(cats[i])]
          /\ bar.positive_data = [i \in 1..Len(cats) |-> N(cats[i], "POSITIVE")]
          /\ bar.negative_data = [i \in 1..Len(cats) |-> N(cats[i], "NEGATIVE")]

-----------------------------------------------------------------------------
(* Properties of the portal (Spec) *)

\* The claim's reading of can_view: the owner, or a coordinator whose
\* department is the row's department_at_submission.
MayView(actor, row) ==
    \/ row.student = actor
    \/ /\ actor \in DOMAIN users
       /\ users[actor].role = "COORDINATOR"
       /\ users[actor].department = row.department_at_submission

\* C2: view_feedback_detail shows a Feedback only to its owning student or
\* to a coordinator whose department equals its department_at_submission;
\* every other authenticated actor is denied and receives none of its data.
C2_ViewOnlyOwnerOrDepartment ==
    (last.op = "view_feedback_detail" /\ last.target \in DOMAIN feedbacks)
    => LET row == feedbacks[last.target]
       IN /\ last.status \in {"ok", "denied"}
          /\ last.status = "ok" => MayView(last.actor, row)
          /\ ~MayView(last.actor, row)
             => (last.status = "denied" /\ last.shown = {})
          /\ last.shown \subseteq {row}

C2_Witness ==
    /\ last.op = "view_feedback_detail"
    /\ last.status = "denied"
    /\ last.shown = {}
    /\ last.target \in DOMAIN feedbacks
    /\ last.actor \in DOMAIN users
    /\ users[last.actor].role = "COORDINATOR"
    /\ users[last.actor].department # NULL
    /\ feedbacks[last.target].department_at_submission # NULL
    /\ users[last.actor].department # feedbacks[last.target].department_at_submission

\* C4: a delete_feedback or revoke_anonymity request for a Feedback by an
\* actor other than its owner fails, and leaves the row present with every
\* field unchanged, with no write of it pending.
C4_OnlyOwnerMutates ==
    [][(/\ last'.op \in {"delete_feedback", "revoke_anonymity"}
        /\ last'.target \in DOMAIN feedbacks
        /\ feedbacks[last'.target].student # last'.actor)
       => /\ last'.status \in {"denied", "forbidden"}
          /\ feedbacks' = feedbacks
          /\ inflight' = inflight]_vars

C4_Witness ==
    /\ last.op = "delete_feedback"
    /\ last.status = "denied"
    /\ last.target \in DOMAIN feedbacks
    /\ last.actor \in DOMAIN users
    /\ users[last.actor].role = "STUDENT"
    /\ feedbacks[last.target].student # last.actor

\* C5, as the specification states it: a stored Feedback row leaves the table
\* only in a successful delete_feedback request of its owning student.
C5_RemovedOnlyByOwner ==
    [][\A id \in DOMAIN feedbacks :
          id \notin DOMAIN feedbacks'
          => /\ last'.op = "delete_feedback"
             /\ last'.status = "success"
             /\ last'.target = id
             /\ last'.actor = feedbacks[id].student]_vars

\* C6, as the specification states it: a stored Feedback whose
\* anonymity_revoked is true has it true in the next state.
C6_RevocationOneWay ==
    [][\A id \in DOMAIN feedbacks \cap DOMAIN feedbacks' :
          feedbacks[id].anonymity_revoked => feedbacks'[id].anonymity_revoked]_vars

\* C7, as the specification states it: department_at_submission of a stored
\* Feedback is the same in the next state, whatever the operation.
C7_DepartmentNeverChanges ==
    [][\A id \in DOMAIN feedbacks \cap DOMAIN feedbacks' :
          feedbacks'[id].department_at_submission
             = feedbacks[id].department_at_submission]_vars

\* C7: department_at_submission of a stored Feedback keeps its value under
\* every operation, changes of the owner's Profile.department included,
\* until the removal of the Department row it names, which sets it to null.
C7_DepartmentKeptUntilRemoved ==
    [][\A id \in DOMAIN feedbacks \cap DOMAIN feedbacks' :
          \/ feedbacks'[id].department_at_submission
                = feedbacks[id].department_at_submission
          \/ /\ feedbacks'[id].department_at_submission = NULL
             /\ feedbacks[id].department_at_submission \in departments
             /\ feedbacks[id].department_at_submission \notin departments'
             /\ last'.op = "admin_delete_department"]_vars

C7_Witness ==
    /\ last.op = "give_feedback"
    /\ last.status = "success"
    /\ last.target \in DOMAIN feedbacks
    /\ LET row == feedbacks[last.target]
       IN /\ row.department_at_submission # NULL
          /\ row.student \in DOMAIN users
          /\ users[row.student].department \notin {NULL, row.department_at_submission}

\* The claim's reading of can_administer: a coordinator whose department is
\* the target student's department.
MayAdminister(actor, student) ==
    /\ users[actor].role = "COORDINATOR"
    /\ users[actor].department = users[student].department

\* C16: an approve_student or reject_student request for a student by an
\* actor who is not a coordinator of the student's department is refused
\* and leaves every identity, Profile and Feedback as it was; the target
\* changes or disappears in these requests only for such a coordinator.
C16_OnlyOwnCoordinatorAdministers ==
    [][(/\ last'.op \in {"approve_student", "reject_student"}
        /\ last'.student \in DOMAIN users
        /\ users[last'.student].role = "STUDENT")
       => /\ ~MayAdminister(last'.actor, last'.student)
             => /\ last'.status \in {"forbidden", "denied"}
                /\ users' = users
                /\ feedbacks' = feedbacks
          /\ MayAdminister(last'.actor, last'.student)
             => last'.status = "success"]_vars

C16_Witness ==
    /\ last.op = "reject_student"
    /\ last.status = "denied"
    /\ last.student \in DOMAIN users
    /\ users[last.actor].role = "COORDINATOR"
    /\ users[last.actor].department # NULL
    /\ users[last.student].department # NULL
    /\ users[last.actor].department # users[last.student].department
    /\ ~users[last.student].is_verified

\* C25, as the specification states it: a request that names an ID without
\* a row is answered as a request that names a row out of the actor's scope
\* is answered: denied by the views of one Feedback and of one student, 403
\* by summarize.
C25_MissingAnsweredAsOutOfScope ==
    [][/\ (/\ last'.op \in {"view_feedback_detail", "delete_feedback"}
           /\ last'.target \notin DOMAIN feedbacks)
          => last'.status = "denied"
       /\ (/\ last'.op = "revoke_anonymity"
           /\ last'.status \notin {"forbidden", "success", "server_error"}
           /\ last'.target \notin DOMAIN feedbacks)
          => last'.status = "denied"
       /\ (/\ last'.op \in {"approve_student", "reject_student"}
           /\ last'.status # "forbidden"
           /\ ~student_or_404(last'.student))
          => last'.status = "denied"
       /\ (/\ last'.op = "summarize_feedback"
           /\ last'.status # "forbidden"
           /\ last'.request[1]
           /\ last'.request[2].json /\ last'.request[2].is_object
           /\ last'.request[2].is_list
           /\ \E i \in 1..Len(last'.request[2].feedback_ids) :
                 last'.request[2].feedback_ids[i] \notin DOMAIN feedbacks)
          => last'.status = "403"]_vars

\* C26: a successful approve_student leaves the student verified and
\* active and changes nothing when the student was both already; a
\* successful reject_student leaves no identity and no Profile of the
\* student.
C26_ApproveAndReject ==
    [][/\ (last'.op = "approve_student" /\ last'.status = "success")
          => /\ last'.student \in DOMAIN users'
             /\ users'[last'.student].is_verified
             /\ users'[last'.student].is_active
             /\ \A u \in DOMAIN users \ {last'.student} :
                   u \in DOMAIN users' /\ users'[u] = users[u]
             /\ (users[last'.student].is_verified /\ users[last'.student].is_active)
                  => UNCHANGED <<users, departments, feedbacks, nextId, inflight>>
       /\ (last'.op = "reject_student" /\ last'.status = "success")
          => /\ last'.student \in DOMAIN users
             /\ last'.student \notin DOMAIN users']_vars

\* A student who had signed up and was not verified has been approved.
C26_Witness ==
    /\ last.op = "approve_student"
    /\ last.status = "success"
    /\ users[last.student].is_verified
    /\ users[last.student].is_active
    /\ users[last.student].department = users[last.actor].department

\* C27, as the specification states it: a student identity that is active
\* has is_verified = true.
C27_ActiveOnlyIfVerified ==
    \A s \in DOMAIN users :
        (users[s].role = "STUDENT" /\ users[s].is_active) => users[s].is_verified

\* C28, as the specification states it: the student a successful
\* reject_student removes was not approved and has no stored Feedback.
C28_RejectOnlyPending ==
    [][(last'.op = "reject_student" /\ last'.status = "success")
          => /\ ~(users[last'.student].is_verified /\ users[last'.student].is_active)
             /\ \A id \in DOMAIN feedbacks :
                   feedbacks[id].student # last'.student]_vars

\* C29, as the specification states it: a coordinator without a department
\* is shown no Feedback, gets no summary, and approves and rejects nobody.
C29_NoDepartmentNoAccess ==
    (/\ last.actor \in DOMAIN users
     /\ users[last.actor].role = "COORDINATOR"
     /\ users[last.actor].department = NULL)
    => /\ ~(last.op = "view_feedback_detail" /\ last.status = "ok")
       /\ ~(last.op = "summarize_feedback" /\ last.status = "200")
       /\ ~(last.op \in {"approve_student", "reject_student"}
             /\ last.status = "success")

\* C30: a stored Feedback with anonymity_revoked has is_anonymous; a
\* revocation refused because the row is not anonymous leaves the table
\* unchanged; is_anonymous of a stored row is the same in the next state.
C30_RevokedOnlyIfAnonymous ==
    [][/\ \A id \in DOMAIN feedbacks' :
             feedbacks'[id].anonymity_revoked => feedbacks'[id].is_anonymous
       /\ \A id \in DOMAIN feedbacks \cap DOMAIN feedbacks' :
             feedbacks'[id].is_anonymous = feedbacks[id].is_anonymous
       /\ (last'.op = "revoke_anonymity" /\ last'.status = "not_anonymous")
          => UNCHANGED <<feedbacks, inflight>>]_vars

\* The owner's revocation of a Feedback that is not anonymous was refused.
C30_Witness ==
    /\ last.op = "revoke_anonymity"
    /\ last.status = "not_anonymous"
    /\ last.target \in DOMAIN feedbacks
    /\ feedbacks[last.target].student = last.actor
    /\ ~feedbacks[last.target].is_anonymous
    /\ ~feedbacks[last.target].anonymity_revoked

-----------------------------------------------------------------------------
(* Properties of the coordinator's summaries (SpecSummary) *)

\* The requested ids that name a stored Feedback of another department than
\* the coordinator's.
ForeignIds(ids, c) ==
    {i \in 1..Len(ids) :
        /\ ids[i] \in DOMAIN feedbacks
        /\ feedbacks[ids[i]].department_at_submission # users[c].department}

\* C3: with the gateway configured, a summarize request of a coordinator
\* whose list names a Feedback of another department is answered 403, sends
\* no prompt to the gateway and returns no summary and no feedback data,
\* whatever the other requested ids.
C3_ForeignIdFailsBatch ==
    (/\ last.op = "summarize_feedback"
     /\ last.actor \in DOMAIN users
     /\ users[last.actor].role = "COORDINATOR"
     /\ last.request[1]
     /\ last.request[2].json /\ last.request[2].is_list
     /\ ForeignIds(last.request[2].feedback_ids, last.actor) # {})
    => /\ last.status = "403"
       /\ last.prompts = <<>>
       /\ last.summary = <<>>
       /\ last.shown = {}

C3_Witness ==
    /\ last.op = "summarize_feedback"
    /\ last.status = "403"
    /\ last.request[1]
    /\ LET ids == last.request[2].feedback_ids
       IN /\ Len(ids) = 2
          /\ ForeignIds(ids, last.actor) # {}
          /\ \E i \in 1..2 :
                /\ ids[i] \in DOMAIN feedbacks
                /\ feedbacks[ids[i]].department_at_submission
                      = users[last.actor].department

\* A summarize request that passed the checks of the key and of the body:
\* a coordinator's, with a non-empty list of ids.
ListRequest(response) ==
    /\ response.op = "summarize_feedback"
    /\ response.status # "forbidden"
    /\ response.request[1]
    /\ response.request[2].json /\ response.request[2].is_object
    /\ response.request[2].is_list
    /\ Len(response.request[2].feedback_ids) > 0

\* Every requested id names a stored Feedback of the actor's department.
AllOwnDepartment(response) ==
    LET ids == response.request[2].feedback_ids
    IN \A i \in 1..Len(ids) :
          /\ ids[i] \in DOMAIN feedbacks
          /\ feedbacks[ids[i]].department_at_submission
                = users[response.actor].department

\* C13, as the specification states it: a request whose list names only
\* Feedback rows of the coordinator's department is never answered with the
\* authorization error.
C13_CountCheckExact ==
    (ListRequest(last) /\ AllOwnDepartment(last)) => last.status # "403"

\* A row with no rating and no non-blank text.
NoRatingNoText(row) ==
    /\ \A i \in 1..5 : row.ratings[i] = NoRating
    /\ Strip(row.text_feedback) = ""

\* C17, as the specification states it: when no selected, authorized entry
\* has a rating or non-blank text, the answer is the "nothing to summarize"
\* sentinel and no prompt is sent to the gateway.
C17_NothingToSummarize ==
    (/\ ListRequest(last) /\ AllOwnDepartment(last)
     /\ last.status # "403"
     /\ \A i \in 1..Len(last.request[2].feedback_ids) :
           NoRatingNoText(feedbacks[last.request[2].feedback_ids[i]]))
    => /\ last.status = "200"
       /\ last.summary = <<NothingToSummarize>>
       /\ last.prompts = <<>>

\* C18, as the specification states it: a summarize request that reaches the
\* view ends with 503 when the key is not set, 400 when the body is not JSON
\* or feedback_ids is missing, empty or not a list, 403, 500 when the gateway
\* call raised, or a summary that is the gateway's text or the sentinel; the
\* gateway is called at most once and its failure is never a summary.
C18_SummarizeOutcomes ==
    (last.op = "summarize_feedback" /\ last.status # "forbidden")
    => LET key == last.request[1]
           body == last.request[2]
           called == Len(last.prompts) = 1
           reply == last.gateway[1]
           badBody == \/ ~body.json \/ ~body.is_object \/ ~body.is_list
                      \/ Len(body.feedback_ids) = 0
       IN /\ last.status \in {"503", "400", "403", "500", "200"}
          /\ (last.status = "503") <=> ~key
          /\ (last.status = "400") <=> (key /\ badBody)
          /\ Len(last.prompts) <= 1
          /\ Len(last.gateway) = Len(last.prompts)
          /\ (last.status = "500") <=> (called /\ reply.raises)
          /\ last.status = "200"
             => /\ Len(last.summary) = 1
                /\ \/ called /\ Len(reply.parts) > 0
                      /\ last.summary[1] = Concat(reply.parts)
                   \/ called /\ Len(reply.parts) = 0
                      /\ last.summary[1] = SummaryBlocked
                   \/ ~called /\ last.summary[1] = NothingToSummarize
          /\ last.status # "200" => last.summary = <<>>

\* The question the synthetic-text step of a submission uses for a slot of
\* a category: cut out of the sentence it makes for that slot alone.
SyntheticQuestion(category, i) ==
    LET sentence == synthetic_text(category,
                       [j \in 1..5 |-> IF j = i THEN 5 ELSE NoRating])
        before == Len("For the question '")
        after == Len("', the rating given was 'Excellent'.")
    IN SubSeq(sentence, before + 1, Len(sentence) - after)

\* The line of the context for slot i of a row.
ContextLine(row, i) ==
    "  - \"" \o SyntheticQuestion(row.category, i) \o "\": "
    \o (IF row.ratings[i] = NoRating THEN "Not Rated"
        ELSE RATING_DESCRIPTIVE_LABELS[row.ratings[i]]
             \o " (" \o ToString(row.ratings[i]) \o "/5)")
    \o "\n"

\* The context of a row: its heading, five lines, its comment, the delimiter.
ContextOf(row) ==
    "Feedback Entry #" \o ToString(row.id) \o ":\n"
    \o "- Category: " \o CategoryDisplay(row.category) \o "\n"
    \o "- Ratings Given:\n"
    \o ContextLine(row, 1) \o ContextLine(row, 2) \o ContextLine(row, 3)
    \o ContextLine(row, 4) \o ContextLine(row, 5)
    \o (IF Strip(row.text_feedback) = "" THEN ""
        ELSE "- Student's Comment: \"" \o Strip(row.text_feedback) \o "\"\n")
    \o "\n---\n\n"

\* The contexts of the rows with the ids in S, the highest id first.
RECURSIVE ContextsOf(_)
ContextsOf(S) ==
    IF S = {} THEN ""
    ELSE LET hi == CHOOSE i \in S : \A j \in S : j <= i
         IN ContextOf(feedbacks[hi]) \o ContextsOf(S \ {hi})

\* C19: the prompt sent for a selection holds, for each selected entry, five
\* lines, line i with the i-th question of the entry's category, the one the
\* synthetic text uses, and the label of rating i or "Not Rated", then the
\* trimmed comment when it is non-blank; every category has five questions.
C19_ContextRendering ==
    /\ \A c \in DOMAIN HARDCODED_CATEGORY_QUESTIONS :
          Len(HARDCODED_CATEGORY_QUESTIONS[c]) = 5
    /\ (last.op = "summarize_feedback" /\ Len(last.prompts) = 1)
       => LET ids == last.request[2].feedback_ids
          IN last.prompts[1]
                = SummaryPrompt \o ContextsOf({ids[i] : i \in 1..Len(ids)})

C19_Witness ==
    /\ last.op = "summarize_feedback"
    /\ Len(last.prompts) = 1
    /\ Len(last.request[2].feedback_ids) = 2
    /\ \E id \in DOMAIN feedbacks :
          /\ feedbacks[id].category = "LIBRARY"
          /\ feedbacks[id].ratings[5] = NoRating
          /\ \E i \in 1..2 : last.request[2].feedback_ids[i] = id
    /\ \E id \in DOMAIN feedbacks :
          /\ feedbacks[id].ratings[1] = 5
          /\ Strip(feedbacks[id].text_feedback) = "good"
          /\ \E i \in 1..2 : last.request[2].feedback_ids[i] = id

====
